---- MODULE Spec2Model ----
(***************************************************************************)
(* A model of hw1/log_analyzer.py: the batch pipeline                      *)
(*   find_log -> check_is_exist_report -> parse_log -> process_log         *)
(*            -> generate_report                                           *)
(* run once by main().                                                     *)
(*                                                                         *)
(* Numbers.  A Python float is modelled as a record [k, v]:                *)
(*   k = "fin"  a finite value, v its value in units of 10^-3              *)
(*              (10^-NUMBER_ROUND_DEPTH, the resolution of nginx's         *)
(*              $request_time and of every rounded figure of the report);  *)
(*   k = "inf"  an infinity, v = 1 or -1 its sign;                         *)
(*   k = "nan"  not-a-number, v = 0.                                       *)
(* Finite arithmetic is exact: the binary rounding of IEEE doubles is not  *)
(* modelled.                                                               *)
(***************************************************************************)
EXTENDS Integers, Sequences, FiniteSets, TLC

VARIABLES
    listing,           \* os.listdir(LOG_DIR): the directory entries, in listing order
    report_dir,        \* REPORT_DIR: report date -> the report file of that date
    config,            \* the Config of the run
    pc,                \* the statement of main() to execute next
    outcome,           \* "running", "ok", or the condition that ended the run
    log_fileinfo,      \* find_log's result
    lines,             \* the lines parse_log has read so far, in order
    count,             \* parse_log: count
    terminated_count,  \* parse_log: terminated_count
    parsed_log,        \* parse_log: parsed_log
    processed_log,     \* process_log's result
    table_list,        \* generate_report: table_list
    logger,            \* the records the logger was given, in order
    returned           \* the calls of main() that have returned, in order

vars == <<listing, report_dir, config, pc, outcome, log_fileinfo, lines, count,
          terminated_count, parsed_log, processed_log, table_list, logger,
          returned>>

-----------------------------------------------------------------------------
(* Bounds of the model *)

MaxLines == 3
MaxFiles == 3

-----------------------------------------------------------------------------
(* CONFIG *)

NUMBER_ROUND_DEPTH == 3

Scale == 10 ^ NUMBER_ROUND_DEPTH

SUPPORTED_LOG_FORMATS_default == {"", ".gz"}

\* values of TERMINATED_PERCENT and REPORT_SIZE a config file may set
TerminatedPercents == {0, 50, 100}
ReportSizes == {-1, 0, 2}

Configs ==
    [TERMINATED_PERCENT : TerminatedPercents,
     REPORT_SIZE : ReportSizes,
     SUPPORTED_LOG_FORMATS : {SUPPORTED_LOG_FORMATS_default}]

\* CONFIG itself: the run without a config file
DefaultConfig ==
    [TERMINATED_PERCENT |-> 100,
     REPORT_SIZE |-> 1000,
     SUPPORTED_LOG_FORMATS |-> SUPPORTED_LOG_FORMATS_default]

-----------------------------------------------------------------------------
(* Python floats *)

Fin(n) == [k |-> "fin", v |-> n]
Inf == [k |-> "inf", v |-> 1]
NaN == [k |-> "nan", v |-> 0]

Sign(n) == IF n < 0 THEN -1 ELSE 1

\* a + b
FAdd(a, b) ==
    IF a.k = "nan" \/ b.k = "nan" THEN NaN
    ELSE IF a.k = "inf" /\ b.k = "inf" THEN (IF a.v = b.v THEN a ELSE NaN)
    ELSE IF a.k = "inf" THEN a
    ELSE IF b.k = "inf" THEN b
    ELSE Fin(a.v + b.v)

\* a > b
FGt(a, b) ==
    /\ a.k # "nan"
    /\ b.k # "nan"
    /\ \/ a.k = "fin" /\ b.k = "fin" /\ a.v > b.v
       \/ a.k = "inf" /\ a.v = 1 /\ ~(b.k = "inf" /\ b.v = 1)
       \/ b.k = "inf" /\ b.v = -1 /\ ~(a.k = "inf" /\ a.v = -1)

\* a >= b
FGe(a, b) == a.k # "nan" /\ b.k # "nan" /\ (a = b \/ FGt(a, b))

\* a == 0
FIsZero(a) == a.k = "fin" /\ a.v = 0

\* the integer nearest to n / d, ties to the even one (d # 0)
RECURSIVE RoundDiv(_, _)
RoundDiv(n, d) ==
    IF d < 0 THEN RoundDiv(-n, -d)
    ELSE LET q == n \div d
             r == n % d
         IN  IF 2 * r < d THEN q
             ELSE IF 2 * r > d THEN q + 1
             ELSE IF q % 2 = 0 THEN q ELSE q + 1

\* round(a * m / b, NUMBER_ROUND_DEPTH) for floats a, b with b # 0 and an integer m > 0
RoundMulDiv(a, m, b) ==
    IF a.k = "nan" \/ b.k = "nan" THEN NaN
    ELSE IF a.k = "inf" /\ b.k = "inf" THEN NaN
    ELSE IF a.k = "inf" THEN [k |-> "inf", v |-> a.v * Sign(b.v)]
    ELSE IF b.k = "inf" THEN Fin(0)
    ELSE Fin(RoundDiv(a.v * m * Scale, b.v))

\* round(a / n, NUMBER_ROUND_DEPTH) for a float a and an integer n > 0
RoundDivInt(a, n) ==
    IF a.k = "fin" THEN Fin(RoundDiv(a.v, n)) ELSE a

\* the sum of a sequence of floats, from 0.0, left to right
RECURSIVE FSum(_)
FSum(s) ==
    IF s = <<>> THEN Fin(0)
    ELSE FAdd(FSum(SubSeq(s, 1, Len(s) - 1)), s[Len(s)])

-----------------------------------------------------------------------------
(* File names of LOG_DIR.                                                  *)
(* A name is [stem, digits, tail]: the text before its first digit, the    *)
(* run of decimal digits that follows, and the rest split into pieces,     *)
(* each piece starting at a "." .  Every stem of the model ends with       *)
(* ".log-", as that of a log file, "nginx-access-ui.log-", does.           *)

LogStem == "nginx-access-ui.log-"

Name(stem, digits, tail) == [stem |-> stem, digits |-> digits, tail |-> tail]

\* an extension as os.path.splitext gives it: a piece of text, followed by digits
Ext(text, digits) == [text |-> text, digits |-> digits]

\* filename_pattern.match(filename): anchored at the start only, 8 digits after the stem
filename_pattern_match(filename) ==
    filename.stem = LogStem /\ Len(filename.digits) >= 8

\* matched.groups()[0]
date_str(filename) == SubSeq(filename.digits, 1, 8)

\* os.path.splitext(filename)[1]: from the last "." of the name to its end
splitext(filename) ==
    IF filename.tail # <<>>
    THEN Ext(filename.tail[Len(filename.tail)], <<>>)
    ELSE Ext(".log-", filename.digits)

\* the extension strings of SUPPORTED_LOG_FORMATS as splitext results
Formats(config_) == {Ext(t, <<>>) : t \in config_.SUPPORTED_LOG_FORMATS}

Num2(a, b) == 10 * a + b
Num4(a, b, c, d) == 1000 * a + 100 * b + 10 * c + d

IsLeap(y) == (y % 4 = 0 /\ y % 100 # 0) \/ y % 400 = 0

DaysIn(y, m) ==
    IF m = 2 THEN (IF IsLeap(y) THEN 29 ELSE 28)
    ELSE IF m \in {4, 6, 9, 11} THEN 30 ELSE 31

\* datetime.strptime(ds, '%Y%m%d') succeeds (else ValueError)
strptime_ok(ds) ==
    LET y == Num4(ds[1], ds[2], ds[3], ds[4])
        m == Num2(ds[5], ds[6])
        d == Num2(ds[7], ds[8])
    IN  y >= 1 /\ m \in 1..12 /\ d >= 1 /\ d <= DaysIn(y, m)

\* datetime.strptime(ds, '%Y%m%d') as the number YYYYMMDD (dates compare as these do)
strptime(ds) ==
    10000 * Num4(ds[1], ds[2], ds[3], ds[4]) + 100 * Num2(ds[5], ds[6])
        + Num2(ds[7], ds[8])

NoDate == 0

\* the loop of find_log over the entries, from (last_date, log_filename) = acc
RECURSIVE find_log_loop(_, _, _)
find_log_loop(config_, entries, acc) ==
    IF entries = <<>> THEN acc
    ELSE LET filename == Head(entries)
             take ==
                 /\ filename_pattern_match(filename)
                 /\ splitext(filename) \in Formats(config_)
                 /\ strptime_ok(date_str(filename))
                 /\ (acc.last_date = NoDate
                        \/ strptime(date_str(filename)) > acc.last_date)
         IN  find_log_loop(config_, Tail(entries),
                 IF take
                 THEN [last_date |-> strptime(date_str(filename)),
                       log_filename |-> filename]
                 ELSE acc)

NoName == Name("", <<>>, <<>>)

find_log(config_, entries) ==
    find_log_loop(config_, entries, [last_date |-> NoDate, log_filename |-> NoName])

-----------------------------------------------------------------------------
(* The directory entries the model draws from.  The first three are names  *)
(* of the test directory (tests.py, setUpClass).                           *)

D20210228 == <<2, 0, 2, 1, 0, 2, 2, 8>>
D20210301 == <<2, 0, 2, 1, 0, 3, 0, 1>>
D20210299 == <<2, 0, 2, 1, 0, 2, 9, 9>>
D20210302 == <<2, 0, 2, 1, 0, 3, 0, 2>>

LogDirNames ==
    { Name(LogStem, D20210228, <<".gz">>),         \* nginx-access-ui.log-20210228.gz
      Name(LogStem, D20210301, <<".gz">>),         \* nginx-access-ui.log-20210301.gz
      Name(LogStem, D20210299, <<".gz">>),         \* nginx-access-ui.log-20210299.gz
      Name(LogStem, D20210302, <<>>),              \* nginx-access-ui.log-20210302
      Name(LogStem, D20210302, <<".bz2">>),        \* nginx-access-ui.log-20210302.bz2
      Name(LogStem, D20210301, <<".old", ".gz">>), \* nginx-access-ui.log-20210301.old.gz
      Name("error.log-", D20210302, <<".gz">>) }   \* error.log-20210302.gz

\* the listings of a directory of at most n entries: distinct names, in any order
Listings(n) ==
    { l \in UNION { [1..m -> LogDirNames] : m \in 0..n } :
        \A i, j \in DOMAIN l : i # j => l[i] # l[j] }

\* the directories main() is run on: empty, the test directory, a plain log only
MainListings ==
    { <<>>,
      << Name(LogStem, D20210228, <<".gz">>), Name(LogStem, D20210301, <<".gz">>),
         Name(LogStem, D20210299, <<".gz">>) >>,
      << Name(LogStem, D20210302, <<>>) >> }

-----------------------------------------------------------------------------
(* REPORT_DIR *)

\* generate_report_filename: one report file per date, report-YYYY.MM.DD.html
ReportDates == { strptime(D20210228), strptime(D20210301), strptime(D20210302) }

NoFile == [exists |-> FALSE, written |-> FALSE, rows |-> <<>>]
\* a report a previous run left
OldReport == [exists |-> TRUE, written |-> FALSE, rows |-> <<>>]

\* the dates a report of a previous run may exist for when the run starts
OldReportDates == { strptime(D20210301) }

-----------------------------------------------------------------------------
(* Log lines.                                                              *)
(* A line is [matches, url, request_time]: whether log_pattern matches it  *)
(* and, if so, the text of the groups url and request_time.                *)

Urls == {"/a", "/b"}
RequestTimeTokens == {"0.000", "1.000", "-1.000", "inf", "nan", "abc"}

NoMatchLine == [matches |-> FALSE, url |-> "", request_time |-> ""]

LogLines ==
    {NoMatchLine} \cup
    [matches : {TRUE}, url : Urls, request_time : RequestTimeTokens]

\* float(token) succeeds (else ValueError)
float_ok(token) == token \in {"0.000", "1.000", "-1.000", "inf", "nan"}

\* float(token)
float(token) ==
    CASE token = "0.000" -> Fin(0)
      [] token = "1.000" -> Fin(Scale)
      [] token = "-1.000" -> Fin(-Scale)
      [] token = "inf" -> Inf
      [] token = "nan" -> NaN

ParsedLine(line) == [url |-> line.url, request_time |-> float(line.request_time)]

EmptyParsedLog == [total_count |-> 0, total_time |-> Fin(0), parsed_lines |-> <<>>]
EmptyProcessedLog == [total_count |-> 0, total_time |-> Fin(0), data |-> <<>>]

NoFileinfo == [path |-> NoName, date |-> NoDate, extension |-> Ext("", <<>>)]

Record(level, msg, line) == [level |-> level, msg |-> msg, line |-> line]

-----------------------------------------------------------------------------
(* process_log.  A dict is modelled as the sequence of its values in       *)
(* insertion order, each value carrying its key (url).                     *)

\* the index of url's entry in the dict d, 0 if it has none
IndexOf(d, url) ==
    IF \E i \in DOMAIN d : d[i].url = url
    THEN CHOOSE i \in DOMAIN d : d[i].url = url
    ELSE 0

NewProcessedLine(url) ==
    [url |-> url, count |-> 0, time_sum |-> Fin(0), time_max |-> Fin(0),
     time_list |-> <<>>]

\* the body of the first loop of process_log, for one parsed_line
fold_line(processed_line, parsed_line) ==
    [ url |-> processed_line.url,
      count |-> processed_line.count + 1,
      time_sum |-> FAdd(processed_line.time_sum, parsed_line.request_time),
      time_max |-> IF FGt(parsed_line.request_time, processed_line.time_max)
                   THEN parsed_line.request_time
                   ELSE processed_line.time_max,
      time_list |-> Append(processed_line.time_list, parsed_line.request_time) ]

\* tmp_data after the first loop of process_log
RECURSIVE tmp_data(_)
tmp_data(parsed_lines) ==
    IF parsed_lines = <<>> THEN <<>>
    ELSE LET before == tmp_data(SubSeq(parsed_lines, 1, Len(parsed_lines) - 1))
             parsed_line == parsed_lines[Len(parsed_lines)]
             i == IndexOf(before, parsed_line.url)
         IN  IF i = 0
             THEN Append(before,
                      fold_line(NewProcessedLine(parsed_line.url), parsed_line))
             ELSE [before EXCEPT ![i] = fold_line(before[i], parsed_line)]

\* processed_line['time_sum'] >= config['REPORT_SIZE']
retained(config_, processed_line) ==
    FGe(processed_line.time_sum, Fin(config_.REPORT_SIZE * Scale))

\* the second loop of process_log over the entries of tmp_data
RECURSIVE filter_loop(_, _)
filter_loop(config_, entries) ==
    IF entries = <<>> THEN EmptyProcessedLog
    ELSE LET before == filter_loop(config_, SubSeq(entries, 1, Len(entries) - 1))
             processed_line == entries[Len(entries)]
         IN  IF retained(config_, processed_line)
             THEN [ total_count |-> before.total_count + processed_line.count,
                    total_time |-> FAdd(before.total_time, processed_line.time_sum),
                    data |-> Append(before.data, processed_line) ]
             ELSE before

process_log(config_, parsed_log_) ==
    filter_loop(config_, tmp_data(parsed_log_.parsed_lines))

-----------------------------------------------------------------------------
(* generate_report *)

\* s with x inserted before its first element greater than x (s sorted)
RECURSIVE Insert(_, _)
Insert(s, x) ==
    IF s = <<>> THEN <<x>>
    ELSE IF FGt(Head(s), x) THEN <<x>> \o s
    ELSE <<Head(s)>> \o Insert(Tail(s), x)

\* sorted(s)
RECURSIVE sorted(_)
sorted(s) ==
    IF s = <<>> THEN <<>>
    ELSE Insert(sorted(SubSeq(s, 1, Len(s) - 1)), s[Len(s)])

\* round(statistics.median(time_list), nrd), time_list not empty
round_median(time_list) ==
    LET data == sorted(time_list)
        n == Len(data)
        i == n \div 2
    IN  IF n % 2 = 1
        THEN RoundDivInt(data[i + 1], 1)
        ELSE RoundDivInt(FAdd(data[i], data[i + 1]), 2)

\* the divisions of one row raise ZeroDivisionError
row_raises(processed_log_) ==
    processed_log_.total_count = 0 \/ FIsZero(processed_log_.total_time)

\* the dict appended to table_list for processed_line
row(processed_log_, processed_line) ==
    [ url |-> processed_line.url,
      count |-> processed_line.count,
      count_perc |-> Fin(RoundDiv(processed_line.count * 100 * Scale,
                                  processed_log_.total_count)),
      time_sum |-> RoundDivInt(processed_line.time_sum, 1),
      time_perc |-> RoundMulDiv(processed_line.time_sum, 100,
                                processed_log_.total_time),
      time_avg |-> RoundDivInt(processed_line.time_sum, processed_line.count),
      time_max |-> RoundDivInt(processed_line.time_max, 1),
      time_med |-> round_median(processed_line.time_list) ]

\* table_list after the loop of generate_report, no division raising
rows(processed_log_) ==
    [ i \in DOMAIN processed_log_.data |-> row(processed_log_, processed_log_.data[i]) ]

-----------------------------------------------------------------------------
(* main(): the state after get_logger, and one action per step             *)

InitRun ==
    /\ pc = "find_log"
    /\ outcome = "running"
    /\ log_fileinfo = NoFileinfo
    /\ lines = <<>>
    /\ count = 0
    /\ terminated_count = 0
    /\ parsed_log = EmptyParsedLog
    /\ processed_log = EmptyProcessedLog
    /\ table_list = <<>>
    /\ logger = <<>>
    /\ returned = <<>>

Init ==
    /\ listing \in MainListings
    /\ report_dir \in { [d \in ReportDates |-> IF d \in old THEN OldReport ELSE NoFile] :
                          old \in SUBSET OldReportDates }
    /\ config \in Configs
    /\ InitRun

\* raise SystemExit(), or an exception no caller handles: the run is over
Raise(what) ==
    /\ pc' = "exit"
    /\ outcome' = what

\* find_log, no entry taken: lines 178-180
FindLogNotFound ==
    /\ pc = "find_log"
    /\ find_log(config, listing).last_date = NoDate
    /\ logger' = Append(logger, Record("warning", "Log not founded", NoMatchLine))
    /\ Raise("SystemExit: log not found")
    /\ UNCHANGED <<returned, listing, report_dir, config, log_fileinfo, lines, count,
                   terminated_count, parsed_log, processed_log, table_list>>

\* find_log, returning the Fileinfo of the entry taken last: lines 182-188
FindLogFound ==
    /\ pc = "find_log"
    /\ LET found == find_log(config, listing)
       IN  /\ found.last_date # NoDate
           /\ log_fileinfo' = [ path |-> found.log_filename,
                                date |-> found.last_date,
                                extension |-> splitext(found.log_filename) ]
    /\ pc' = "check_is_exist_report"
    /\ returned' = Append(returned, "find_log")
    /\ UNCHANGED <<listing, report_dir, config, outcome, lines, count,
                   terminated_count, parsed_log, processed_log, table_list, logger>>

\* report_exists looking for the report of another date than the log's
report_exists_wrong_date(report_dir_, log_fileinfo_) ==
    \E d \in DOMAIN report_dir_ : d < log_fileinfo_.date /\ report_dir_[d].exists

\* os.path.exists(report_fileinfo['path']) for the report of log_fileinfo_'s date
report_exists(report_dir_, log_fileinfo_) == report_dir_[log_fileinfo_.date].exists

\* check_is_exist_report, the report exists: lines 198-200
CheckIsExistReportExit ==
    /\ pc = "check_is_exist_report"
    /\ report_exists(report_dir, log_fileinfo)
    /\ logger' = Append(logger, Record("warning", "Report already generated", NoMatchLine))
    /\ Raise("SystemExit: report already generated")
    /\ UNCHANGED <<returned, listing, report_dir, config, log_fileinfo, lines, count,
                   terminated_count, parsed_log, processed_log, table_list>>

\* check_is_exist_report, no report: it returns
CheckIsExistReportReturn ==
    /\ pc = "check_is_exist_report"
    /\ ~report_exists(report_dir, log_fileinfo)
    /\ pc' = "parse_log"
    /\ returned' = Append(returned, "check_is_exist_report")
    /\ UNCHANGED <<listing, report_dir, config, outcome, log_fileinfo, lines, count,
                   terminated_count, parsed_log, processed_log, table_list, logger>>

-----------------------------------------------------------------------------
(* parse_log: one action per iteration of its loop, by the path taken      *)

\* terminated_count * 100 / count >= config['TERMINATED_PERCENT'], count > 0
\* (the quotient of two small integers: exact against an integer percent)
terminated_percent_achieved(config_, terminated_count_, count_) ==
    terminated_count_ * 100 >= config_.TERMINATED_PERCENT * count_

\* the next line is read: lines 241-242
ReadLine(line) ==
    /\ pc = "parse_log"
    /\ Len(lines) < MaxLines
    /\ lines' = Append(lines, line)
    /\ count' = count + 1

\* log_pattern does not match: lines 243-248
ParseLineSkipped ==
    \E line \in LogLines :
        /\ ReadLine(line)
        /\ ~line.matches
        /\ logger' = Append(logger, Record("info", "Skiped line", line))
        /\ terminated_count' = terminated_count + 1
        /\ UNCHANGED <<returned, listing, report_dir, config, pc, outcome, log_fileinfo,
                       parsed_log, processed_log, table_list>>

\* log_pattern matches and the threshold is reached: lines 250-252
ParseLineTerminated ==
    \E line \in LogLines :
        /\ ReadLine(line)
        /\ line.matches
        /\ terminated_percent_achieved(config, terminated_count, count')
        /\ logger' = Append(logger,
                         Record("exception", "TERMINATED_PERCENT achieved", NoMatchLine))
        /\ Raise("SystemExit: TERMINATED_PERCENT achieved")
        /\ UNCHANGED <<returned, listing, report_dir, config, log_fileinfo, terminated_count,
                       parsed_log, processed_log, table_list>>

\* log_pattern matches, float() raises ValueError, which nothing catches: line 255
ParseLineValueError ==
    \E line \in LogLines :
        /\ ReadLine(line)
        /\ line.matches
        /\ ~terminated_percent_achieved(config, terminated_count, count')
        /\ ~float_ok(line.request_time)
        /\ Raise("ValueError")
        /\ UNCHANGED <<returned, listing, report_dir, config, log_fileinfo, terminated_count,
                       parsed_log, processed_log, table_list, logger>>

\* parsed_log_append with total_time assigned where the code adds to it
parsed_log_append_assigns(parsed_log_, line) ==
    [ total_count |-> parsed_log_.total_count + 1,
      total_time |-> ParsedLine(line).request_time,
      parsed_lines |-> Append(parsed_log_.parsed_lines, ParsedLine(line)) ]

\* parsed_log after lines 254-259 for a line that parses
parsed_log_append(parsed_log_, line) ==
    [ total_count |-> parsed_log_.total_count + 1,
      total_time |-> FAdd(parsed_log_.total_time, ParsedLine(line).request_time),
      parsed_lines |-> Append(parsed_log_.parsed_lines, ParsedLine(line)) ]

\* log_pattern matches and the line becomes a ParsedLine: lines 254-259
ParseLineParsed ==
    \E line \in LogLines :
        /\ ReadLine(line)
        /\ line.matches
        /\ ~terminated_percent_achieved(config, terminated_count, count')
        /\ float_ok(line.request_time)
        /\ parsed_log' = parsed_log_append(parsed_log, line)
        /\ UNCHANGED <<returned, listing, report_dir, config, pc, outcome, log_fileinfo,
                       terminated_count, processed_log, table_list, logger>>

\* the file is exhausted: parse_log returns parsed_log, line 261
ParseLogReturn ==
    /\ pc = "parse_log"
    /\ pc' = "process_log"
    /\ returned' = Append(returned, "parse_log")
    /\ UNCHANGED <<listing, report_dir, config, outcome, log_fileinfo, lines, count,
                   terminated_count, parsed_log, processed_log, table_list, logger>>

-----------------------------------------------------------------------------
(* process_log and generate_report *)

ProcessLog ==
    /\ pc = "process_log"
    /\ processed_log' = process_log(config, parsed_log)
    /\ pc' = "generate_report"
    /\ returned' = Append(returned, "process_log")
    /\ UNCHANGED <<listing, report_dir, config, outcome, log_fileinfo, lines, count,
                   terminated_count, parsed_log, table_list, logger>>

\* the loop of generate_report raises in its first iteration: lines 318-321
GenerateReportRowsRaise ==
    /\ pc = "generate_report"
    /\ processed_log.data # <<>>
    /\ row_raises(processed_log)
    /\ Raise("ZeroDivisionError")
    /\ UNCHANGED <<returned, listing, report_dir, config, log_fileinfo, lines, count,
                   terminated_count, parsed_log, processed_log, table_list, logger>>

\* the loop of generate_report builds table_list: lines 315-337
GenerateReportRows ==
    /\ pc = "generate_report"
    /\ ~(processed_log.data # <<>> /\ row_raises(processed_log))
    /\ table_list' = rows(processed_log)
    /\ pc' = "report_template"
    /\ UNCHANGED <<returned, listing, report_dir, config, outcome, log_fileinfo, lines, count,
                   terminated_count, parsed_log, processed_log, logger>>

\* GenerateReportNoTemplate logging the exception without raising SystemExit
GenerateReportNoTemplateGoesOn ==
    /\ pc = "report_template"
    /\ logger' = Append(logger,
                     Record("exception", "Report template not found", NoMatchLine))
    /\ pc' = "report_write"
    /\ UNCHANGED <<returned, listing, report_dir, config, outcome, log_fileinfo, lines,
                   count, terminated_count, parsed_log, processed_log, table_list>>

\* REPORT_DIR holds no report.html: lines 339-341
GenerateReportNoTemplate ==
    /\ pc = "report_template"
    /\ logger' = Append(logger,
                     Record("exception", "Report template not found", NoMatchLine))
    /\ Raise("SystemExit: report template not found")
    /\ UNCHANGED <<returned, listing, report_dir, config, log_fileinfo, lines, count,
                   terminated_count, parsed_log, processed_log, table_list>>

\* report.html is read and rendered: lines 343-345
GenerateReportRender ==
    /\ pc = "report_template"
    /\ pc' = "report_write"
    /\ UNCHANGED <<returned, listing, report_dir, config, outcome, log_fileinfo, lines, count,
                   terminated_count, parsed_log, processed_log, table_list, logger>>

\* the report file of the log's date is written: lines 347-352
GenerateReportWrite ==
    /\ pc = "report_write"
    /\ report_dir' = [report_dir EXCEPT ![log_fileinfo.date] =
                          [exists |-> TRUE, written |-> TRUE, rows |-> table_list]]
    /\ logger' = Append(logger, Record("info", "Success: report ready", NoMatchLine))
    /\ pc' = "done"
    /\ outcome' = "ok"
    /\ returned' = Append(returned, "generate_report")
    /\ UNCHANGED <<listing, config, log_fileinfo, lines, count, terminated_count,
                   parsed_log, processed_log, table_list>>

Next ==
    \/ FindLogNotFound
    \/ FindLogFound
    \/ CheckIsExistReportExit
    \/ CheckIsExistReportReturn
    \/ ParseLineSkipped
    \/ ParseLineTerminated
    \/ ParseLineValueError
    \/ ParseLineParsed
    \/ ParseLogReturn
    \/ ProcessLog
    \/ GenerateReportRowsRaise
    \/ GenerateReportRows
    \/ GenerateReportNoTemplate
    \/ GenerateReportRender
    \/ GenerateReportWrite

Spec == Init /\ [][Next]_vars

-----------------------------------------------------------------------------
(* find_log alone, on every listing of at most MaxFiles entries, under     *)
(* CONFIG                                                                  *)

InitFind ==
    /\ listing \in Listings(MaxFiles)
    /\ report_dir = [d \in ReportDates |-> NoFile]
    /\ config = DefaultConfig
    /\ InitRun

NextFind ==
    \/ FindLogNotFound
    \/ FindLogFound

SpecFind == InitFind /\ [][NextFind]_vars

-----------------------------------------------------------------------------
(* What the specification says of parse_log, stated on the lines read      *)

Terminated == "SystemExit: TERMINATED_PERCENT achieved"

\* a malformed line: it fails the grammar or its trailing field is no number
Malformed(line) == ~line.matches \/ ~float_ok(line.request_time)

WellFormed(line) == line.matches /\ float_ok(line.request_time)

\* the number of malformed lines among the first i lines of s
MalformedSoFar(s, i) == Cardinality({ j \in 1..i : Malformed(s[j]) })

\* malformed_so_far * 100 / i >= T at line index i of s
RatioReached(s, i, T) == MalformedSoFar(s, i) * 100 >= T * i

\* the first line index of s at which the ratio reaches T, 0 if there is none
FirstReached(s, T) ==
    IF \E i \in 1..Len(s) : RatioReached(s, i, T)
    THEN CHOOSE i \in 1..Len(s) :
             RatioReached(s, i, T) /\ \A j \in 1..(i - 1) : ~RatioReached(s, j, T)
    ELSE 0

\* the ParsedRecords of the well-formed lines of s, in order
RECURSIVE WellFormedRecords(_)
WellFormedRecords(s) ==
    IF s = <<>> THEN <<>>
    ELSE IF WellFormed(Head(s))
    THEN <<[url |-> Head(s).url, request_time |-> float(Head(s).request_time)]>>
             \o WellFormedRecords(Tail(s))
    ELSE WellFormedRecords(Tail(s))

\* the request_time values of a sequence of records, in order
Times(records) == [ i \in DOMAIN records |-> records[i].request_time ]

\* C1: parse_log aborts at the first line index at which
\* malformed_so_far * 100 / i >= TERMINATED_PERCENT, whatever the line there is, and
\* never otherwise (stated for the runs that no ValueError ends).
C1_AbortsAtFirstReached ==
    outcome # "ValueError" =>
        LET first == FirstReached(lines, config.TERMINATED_PERCENT)
        IN  /\ outcome = Terminated => first = Len(lines)
            /\ first # 0 => outcome = Terminated /\ Len(lines) = first

\* C2: a line that matches the grammar with a trailing token that is no number is
\* counted, logged and skipped as a grammar mismatch is, without a record, and ends the
\* run through the threshold check only.
C2_NonNumericTokenIsSkipped ==
    \A i \in DOMAIN lines :
        (lines[i].matches /\ ~float_ok(lines[i].request_time)) =>
            /\ outcome # "ValueError"
            /\ outcome # Terminated =>
                   /\ terminated_count >= Cardinality({ j \in 1..i : lines[j] = lines[i] })
                   /\ \E j \in DOMAIN logger :
                          logger[j] = Record("info", "Skiped line", lines[i])
                   /\ Len(parsed_log.parsed_lines) <= Len(lines) - 1

\* C4: once parse_log has returned, parsed_lines is the well-formed lines of the input
\* as records in input order, total_count their number (the lines read less the
\* malformed ones) and total_time the sum of their request_time.
C4_ParseLogResult ==
    "parse_log" \in { returned[j] : j \in DOMAIN returned } =>
        LET records == WellFormedRecords(lines)
        IN  /\ parsed_log.parsed_lines = records
            /\ parsed_log.total_count = Len(records)
            /\ parsed_log.total_count = Len(lines) - MalformedSoFar(lines, Len(lines))
            /\ parsed_log.total_time = FSum(Times(records))
            /\ lines = <<>> => parsed_log = EmptyParsedLog

\* C4's case: parse_log returned from a file of MaxLines lines, malformed and
\* well-formed ones among them
C4_Witness ==
    /\ pc = "process_log"
    /\ Len(lines) = MaxLines
    /\ Len(parsed_log.parsed_lines) = 2
    /\ parsed_log.total_time = Fin(2 * Scale)

\* C9: every ParsedRecord of the IngestResult holds a request_time that is a
\* non-negative real number.
C9_RequestTimeNonNegativeReal ==
    \A i \in DOMAIN parsed_log.parsed_lines :
        /\ parsed_log.parsed_lines[i].request_time.k = "fin"
        /\ parsed_log.parsed_lines[i].request_time.v >= 0

-----------------------------------------------------------------------------
(* main() *)

Returned == { returned[j] : j \in DOMAIN returned }

\* the run has met a fatal condition
Fatal == outcome \notin {"running", "ok"}

\* the logger was told of a fatal condition
FatalLogged == \E j \in DOMAIN logger : logger[j].level \in {"warning", "exception"}

\* C3: a run that meets a fatal condition writes no report file; the report of the
\* log's date is written only after find_log, check_is_exist_report, parse_log and
\* process_log have returned and every row has been computed, no fatal condition met.
C3_NoReportAfterFatal ==
    /\ Fatal => \A d \in DOMAIN report_dir : ~report_dir[d].written
    /\ \A d \in DOMAIN report_dir :
           report_dir[d].written =>
               /\ d = log_fileinfo.date
               /\ SubSeq(returned, 1, 4) =
                      <<"find_log", "check_is_exist_report", "parse_log", "process_log">>
               /\ ~FatalLogged
               /\ ~(processed_log.data # <<>> /\ row_raises(processed_log))
               /\ Len(table_list) = Len(processed_log.data)
               /\ report_dir[d].rows = table_list

\* C3's case: the report of a log with retained URLs has been written
C3_Witness ==
    /\ pc = "done"
    /\ report_dir[log_fileinfo.date].written
    /\ Len(report_dir[log_fileinfo.date].rows) = 2

\* the statements of main() after check_is_exist_report and before the report is written
AfterCheck == {"parse_log", "process_log", "generate_report", "report_template",
               "report_write"}

\* C8: when the report of the log's date exists, check_is_exist_report raises
\* SystemExit: nothing is parsed, processed or generated and the report file stays as
\* it was; a log is parsed only when no report of its date exists.
C8_ExistingReportEndsRun ==
    /\ (pc \in AfterCheck \/ lines # <<>>) =>
           ~report_dir[log_fileinfo.date].exists \/ report_dir[log_fileinfo.date].written
    /\ \A d \in OldReportDates :
           (report_dir[d] = OldReport /\ d = log_fileinfo.date
                /\ pc # "check_is_exist_report") =>
               /\ outcome = "SystemExit: report already generated"
               /\ lines = <<>>
               /\ parsed_log = EmptyParsedLog
               /\ processed_log = EmptyProcessedLog
               /\ table_list = <<>>
               /\ returned = <<"find_log">>

\* C8's case: the run ended at check_is_exist_report, the old report in place
C8_Witness ==
    /\ outcome = "SystemExit: report already generated"
    /\ report_dir[log_fileinfo.date] = OldReport

-----------------------------------------------------------------------------
(* What the specification says of process_log and of the rows, stated on   *)
(* the records of parsed_log                                               *)

\* the request_time values of the records of url, in order
RECURSIVE TimesOf(_, _)
TimesOf(url, records) ==
    IF records = <<>> THEN <<>>
    ELSE IF Head(records).url = url
    THEN <<Head(records).request_time>> \o TimesOf(url, Tail(records))
    ELSE TimesOf(url, Tail(records))

\* m is the maximum of the values times
IsMax(m, times) ==
    /\ \E i \in DOMAIN times : times[i] = m
    /\ \A i \in DOMAIN times : FGe(m, times[i])

\* the URLs whose summed request_time is >= REPORT_SIZE
RetainedUrls(config_, records) ==
    { u \in { records[i].url : i \in DOMAIN records } :
        FGe(FSum(TimesOf(u, records)), Fin(config_.REPORT_SIZE * Scale)) }

\* the sum of field f of the entries of the sequence d
RECURSIVE SumOf(_, _)
SumOf(d, f) ==
    IF d = <<>> THEN Fin(0)
    ELSE FAdd(SumOf(SubSeq(d, 1, Len(d) - 1), f), d[Len(d)][f])

RECURSIVE CountOf(_)
CountOf(d) ==
    IF d = <<>> THEN 0 ELSE CountOf(SubSeq(d, 1, Len(d) - 1)) + d[Len(d)].count

Abs(n) == IF n < 0 THEN -n ELSE n

\* the percentages p (one per row, each rounded to 10^-NUMBER_ROUND_DEPTH) sum to 100
\* within half a unit of the last place per row
SumsTo100(p) ==
    /\ p.k = "fin"
    /\ 2 * Abs(p.v - 100 * Scale) <= Len(table_list)

\* C5: the data of process_log holds exactly the URLs whose summed request_time is
\* >= REPORT_SIZE, each with the count, sum, maximum and ordered list of the
\* request_time values of its records.
C5_ProcessLogIsNaiveFold ==
    "process_log" \in Returned =>
        LET records == parsed_log.parsed_lines
            data == processed_log.data
        IN  /\ { data[i].url : i \in DOMAIN data } = RetainedUrls(config, records)
            /\ \A i, j \in DOMAIN data : data[i].url = data[j].url => i = j
            /\ \A i \in DOMAIN data :
                   LET times == TimesOf(data[i].url, records)
                   IN  /\ data[i].count = Len(times)
                       /\ data[i].time_sum = FSum(times)
                       /\ data[i].time_list = times
                       /\ IsMax(data[i].time_max, times)

\* every request_time of the records is a non-negative real number
NonNegativeInput ==
    \A i \in DOMAIN parsed_log.parsed_lines :
        /\ parsed_log.parsed_lines[i].request_time.k = "fin"
        /\ parsed_log.parsed_lines[i].request_time.v >= 0

\* C6: a non-empty result of process_log has the sums of count and time_sum over its
\* retained URLs as totals, and the rows generate_report builds from it have
\* count_perc values summing to 100 and time_perc values summing to 100, up to the
\* rounding of each row (stated for records of non-negative real request_time).
C6_PercentagesSumTo100 ==
    ("process_log" \in Returned /\ processed_log.data # <<>> /\ NonNegativeInput) =>
        /\ processed_log.total_count = CountOf(processed_log.data)
        /\ processed_log.total_time = SumOf(processed_log.data, "time_sum")
        /\ pc # "generate_report" =>
               /\ outcome # "ZeroDivisionError"
               /\ Len(table_list) = Len(processed_log.data)
               /\ SumsTo100(SumOf(table_list, "count_perc"))
               /\ SumsTo100(SumOf(table_list, "time_perc"))

\* C10: generate_report never divides by zero: whenever the data of process_log is
\* not empty, total_count and total_time are both non-zero.
C10_NoDivisionByZero ==
    /\ outcome # "ZeroDivisionError"
    /\ ("process_log" \in Returned /\ processed_log.data # <<>>) =>
           /\ processed_log.total_count # 0
           /\ ~FIsZero(processed_log.total_time)

-----------------------------------------------------------------------------
(* What the specification says of find_log, stated on the listing          *)

\* an entry named nginx-access-ui.log-YYYYMMDD, plain or .gz, of a valid date (a name
\* with more text between the date and a final .gz is taken as find_log takes it)
Qualifies(filename) ==
    /\ filename.stem = LogStem
    /\ Len(filename.digits) >= 8
    /\ filename.tail = <<>> \/ filename.tail[Len(filename.tail)] = ".gz"
    /\ strptime_ok(SubSeq(filename.digits, 1, 8))

\* the date of a qualifying entry
DateOf(filename) == strptime(SubSeq(filename.digits, 1, 8))

\* entry i of l is the first of the qualifying entries of the greatest date
IsNewest(l, i) ==
    /\ Qualifies(l[i])
    /\ \A j \in DOMAIN l :
           Qualifies(l[j]) =>
               \/ DateOf(l[j]) < DateOf(l[i])
               \/ DateOf(l[j]) = DateOf(l[i]) /\ i <= j

\* C7: find_log returns the first of the entries of the greatest date among those
\* named nginx-access-ui.log-YYYYMMDD, plain or .gz, of a valid date, and raises
\* SystemExit when there is none.
C7_FindLogNewestQualifying ==
    pc # "find_log" =>
        IF \E i \in DOMAIN listing : Qualifies(listing[i])
        THEN /\ "find_log" \in Returned
             /\ \E i \in DOMAIN listing :
                    /\ IsNewest(listing, i)
                    /\ log_fileinfo.path = listing[i]
                    /\ log_fileinfo.date = DateOf(listing[i])
        ELSE outcome = "SystemExit: log not found"

-----------------------------------------------------------------------------
(* What the specification says of the diagnostic events of parse_log       *)

IsSkipNotice(record) == record.level = "info" /\ record.msg = "Skiped line"

IsAlarm(record) ==
    record.level = "exception" /\ record.msg = "TERMINATED_PERCENT achieved"

\* the lines the skip notices of the log l carry, in the order of emission
RECURSIVE NoticedLines(_)
NoticedLines(l) ==
    IF l = <<>> THEN <<>>
    ELSE IF IsSkipNotice(Head(l)) THEN <<Head(l).line>> \o NoticedLines(Tail(l))
    ELSE NoticedLines(Tail(l))

\* the malformed lines of s, in input order
RECURSIVE MalformedLines(_)
MalformedLines(s) ==
    IF s = <<>> THEN <<>>
    ELSE IF Malformed(Head(s)) THEN <<Head(s)>> \o MalformedLines(Tail(s))
    ELSE MalformedLines(Tail(s))

\* C11: parse_log emits its diagnostic events in input order: one skip notice with the
\* line text for each malformed line read, never more than one per line, and at most
\* one threshold alarm; the alarm, if emitted, is the last event, and no line is
\* read, counted or added to the result after it.
C11_DiagnosticEventsInOrder ==
    /\ NoticedLines(logger) = MalformedLines(lines)
    /\ Cardinality({ j \in DOMAIN logger : IsAlarm(logger[j]) }) <= 1
    /\ \A j \in DOMAIN logger :
           IsAlarm(logger[j]) =>
               /\ j = Len(logger)
               /\ pc = "exit"
               /\ outcome = Terminated
               /\ count = Len(lines)
               /\ parsed_log.total_count = Len(parsed_log.parsed_lines)
               /\ Len(parsed_log.parsed_lines) < Len(lines)

====
